---- MODULE Spec2Model ----
(***************************************************************************)
(* Model of the Lucille Protocol MCP server (src/src/index.ts): eleven     *)
(* tools registered on one McpServer, two fetch helpers (apiGet, apiPost), *)
(* and the error formatter errorContent.                                   *)
(*                                                                         *)
(* Texts are TLA+ strings.  The source's non-ASCII characters are written  *)
(* as ASCII tags of the same role: [hourglass] [x] [wrench] [plug] [check] *)
(* [trophy] [robot] [party] [bulb], "--" for the em dash, "->" for the     *)
(* arrow.                                                                  *)
(*                                                                         *)
(* JavaScript values are tagged records (field t is the typeof/kind), so   *)
(* that the duck-typed field reads, the || defaults and the template       *)
(* literals of the source can be computed as the engine computes them.     *)
(***************************************************************************)
EXTENDS Integers, Sequences, FiniteSets, TLC

\* inv[i]: the tool invocation the host has dispatched in slot i
\* env: the value of LUCILLE_API_URL when the module was loaded ("" if unset)
VARIABLES inv, env

vars == <<inv, env>>

(***************************************************************************)
(* Strings                                                                 *)
(***************************************************************************)
Min(a, b) == IF a < b THEN a ELSE b

Max(a, b) == IF a > b THEN a ELSE b

\* s[i] of a JavaScript string (1-based here).
CharAt(s, i) == SubSeq(s, i, i)

\* String.prototype.includes
Includes(s, t) ==
    \E i \in 1..(Len(s) - Len(t) + 1) : SubSeq(s, i, i + Len(t) - 1) = t

\* String.prototype.startsWith
StartsWith(s, t) == Len(s) >= Len(t) /\ SubSeq(s, 1, Len(t)) = t

\* s.slice(0, n) for n >= 0
SliceHead(s, n) == SubSeq(s, 1, Min(n, Len(s)))

\* s.slice(-n) for n > 0
SliceTail(s, n) == SubSeq(s, Max(1, Len(s) - n + 1), Len(s))

RECURSIVE Repeat(_, _)
Repeat(c, n) ==
    IF n <= 0 THEN ""
    ELSE IF n % 2 = 0 THEN LET half == Repeat(c, n \div 2) IN half \o half
    ELSE c \o Repeat(c, n - 1)

(***************************************************************************)
(* JavaScript values                                                       *)
(***************************************************************************)
Undefined == [t |-> "undefined"]

Null == [t |-> "null"]

Num(n) == [t |-> "number", v |-> n]

\* A number that is no integer: whole + tenths/10 with whole >= 0 and tenths
\* in 1..9, as JSON arguments such as 1.5 carry it.
Dec(whole, tenths) == [t |-> "number", v |-> whole, tenths |-> tenths]

\* Number.isInteger
IsInteger(x) == x.t = "number" /\ "tenths" \notin DOMAIN x

\* Ten times the value of a number, for comparisons
InTenths(x) == 10 * x.v + (IF IsInteger(x) THEN 0 ELSE x.tenths)

Str(s) == [t |-> "string", v |-> s]

Bool(b) == [t |-> "boolean", v |-> b]

Arr(elems) == [t |-> "array", v |-> elems]

\* members: a sequence of [k |-> key, v |-> value], in insertion order
Obj(members) == [t |-> "object", v |-> members]

Member(k, v) == [k |-> k, v |-> v]

\* A completed computation: a returned value or a thrown one.
Return(v) == [c |-> "return", v |-> v]

Throw(e) == [c |-> "throw", e |-> e]

\* Values that can be thrown.
JsError(name, message) == [cls |-> "Error", name |-> name, message |-> message]

NonError == [cls |-> "NonError"]

\* ToBoolean, as used by ||, ?: and if
Truthy(x) ==
    CASE x.t = "undefined" -> FALSE
      [] x.t = "null" -> FALSE
      [] x.t = "number" -> x.v # 0 \/ "tenths" \in DOMAIN x
      [] x.t = "string" -> x.v # ""
      [] x.t = "boolean" -> x.v
      [] OTHER -> TRUE

\* a || b
OrElse(a, b) == IF Truthy(a) THEN a ELSE b

IntToString(n) == IF n < 0 THEN "-" \o ToString(0 - n) ELSE ToString(n)

\* ToString of a template literal `${x}`
RECURSIVE JsToString(_)
RECURSIVE JoinElems(_, _)
JoinElems(elems, i) ==
    IF i > Len(elems) THEN ""
    ELSE (IF i > 1 THEN "," ELSE "")
         \o (IF elems[i].t \in {"undefined", "null"} THEN "" ELSE JsToString(elems[i]))
         \o JoinElems(elems, i + 1)

JsToString(x) ==
    CASE x.t = "undefined" -> "undefined"
      [] x.t = "null" -> "null"
      [] x.t = "number" -> IntToString(x.v)
                            \o (IF "tenths" \in DOMAIN x THEN "." \o ToString(x.tenths) ELSE "")
      [] x.t = "string" -> x.v
      [] x.t = "boolean" -> (IF x.v THEN "true" ELSE "false")
      [] x.t = "array" -> JoinElems(x.v, 1)
      [] OTHER -> "[object Object]"

\* Own property k of an object, undefined when absent (the last member wins).
RECURSIVE Lookup(_, _, _)
Lookup(members, k, i) ==
    IF i = 0 THEN Undefined
    ELSE IF members[i].k = k THEN members[i].v
    ELSE Lookup(members, k, i - 1)

\* x.k : throws TypeError on null and undefined, reads an own property of an
\* object, and is undefined on every other value the models' inputs contain
\* (no key used by the source is a built-in property of a primitive or an
\* array except length and slice, which have their own definitions below).
GetProp(x, k) ==
    IF x.t \in {"undefined", "null"}
    THEN Throw(JsError("TypeError",
             "Cannot read properties of " \o x.t \o " (reading '" \o k \o "')"))
    ELSE IF x.t = "object" THEN Return(Lookup(x.v, k, Len(x.v)))
    ELSE Return(Undefined)

\* x?.k
GetPropOpt(x, k) ==
    IF x.t \in {"undefined", "null"} THEN Return(Undefined) ELSE GetProp(x, k)

(***************************************************************************)
(* JSON.parse, for the texts the models' upstream bodies are drawn from:   *)
(* null, true, false, integers, strings without escapes, arrays, objects   *)
(* and insignificant whitespace.  Anything else raises SyntaxError, as in  *)
(* the engine; fractions, exponents and backslash escapes are outside the  *)
(* input alphabet.                                                         *)
(***************************************************************************)
Digits == {"0", "1", "2", "3", "4", "5", "6", "7", "8", "9"}

DigitVal(c) ==
    CASE c = "0" -> 0 [] c = "1" -> 1 [] c = "2" -> 2 [] c = "3" -> 3
      [] c = "4" -> 4 [] c = "5" -> 5 [] c = "6" -> 6 [] c = "7" -> 7
      [] c = "8" -> 8 [] c = "9" -> 9

Parsed(v, next) == [ok |-> TRUE, v |-> v, next |-> next]

NoParse == [ok |-> FALSE, v |-> Undefined, next |-> 0]

RECURSIVE SkipWs(_, _)
SkipWs(s, i) ==
    IF i <= Len(s) /\ CharAt(s, i) \in {" ", "\n", "\t", "\r"}
    THEN SkipWs(s, i + 1) ELSE i

RECURSIVE ParseDigits(_, _, _)
ParseDigits(s, i, acc) ==
    IF i <= Len(s) /\ CharAt(s, i) \in Digits
    THEN ParseDigits(s, i + 1, acc * 10 + DigitVal(CharAt(s, i)))
    ELSE Parsed(Num(acc), i)

\* the digits after an optional minus sign: 0, or a digit 1-9 and more digits
ParseNatural(s, i) ==
    IF i > Len(s) \/ CharAt(s, i) \notin Digits THEN NoParse
    ELSE IF CharAt(s, i) = "0" THEN Parsed(Num(0), i + 1)
    ELSE ParseDigits(s, i, 0)

ParseNumber(s, i) ==
    IF CharAt(s, i) = "-"
    THEN LET n == ParseNatural(s, i + 1)
         IN  IF n.ok THEN Parsed(Num(0 - n.v.v), n.next) ELSE NoParse
    ELSE ParseNatural(s, i)

\* i is the position after the opening quote
RECURSIVE ParseString(_, _, _)
ParseString(s, i, start) ==
    IF i > Len(s) \/ CharAt(s, i) \in {"\n", "\t", "\r"} THEN NoParse
    ELSE IF CharAt(s, i) = "\"" THEN Parsed(Str(SubSeq(s, start, i - 1)), i + 1)
    ELSE ParseString(s, i + 1, start)

ParseLiteral(s, i, word, v) ==
    IF SubSeq(s, i, Min(Len(s), i + Len(word) - 1)) = word
    THEN Parsed(v, i + Len(word)) ELSE NoParse

\* JSON.parse keeps one member per key: a repeated key keeps its first
\* position and takes the last value.
RECURSIVE PutMember(_, _, _, _)
PutMember(members, k, v, i) ==
    IF i > Len(members) THEN Append(members, Member(k, v))
    ELSE IF members[i].k = k
         THEN [members EXCEPT ![i] = Member(k, v)]
         ELSE PutMember(members, k, v, i + 1)

RECURSIVE ParseValue(_, _)
RECURSIVE ParseElements(_, _, _)
RECURSIVE ParseMembers(_, _, _)

\* i is at the first element of a non-empty array
ParseElements(s, i, acc) ==
    LET e == ParseValue(s, i)
        j == SkipWs(s, e.next)
    IN  IF ~e.ok \/ j > Len(s) THEN NoParse
        ELSE IF CharAt(s, j) = "]" THEN Parsed(Arr(Append(acc, e.v)), j + 1)
        ELSE IF CharAt(s, j) = "," THEN ParseElements(s, j + 1, Append(acc, e.v))
        ELSE NoParse

\* i is at the first member of a non-empty object
ParseMembers(s, i, acc) ==
    LET q == SkipWs(s, i)
        k == IF q <= Len(s) /\ CharAt(s, q) = "\"" THEN ParseString(s, q + 1, q + 1)
             ELSE NoParse
        c == SkipWs(s, k.next)
        v == IF k.ok /\ c <= Len(s) /\ CharAt(s, c) = ":" THEN ParseValue(s, c + 1)
             ELSE NoParse
        j == SkipWs(s, v.next)
    IN  IF ~v.ok \/ j > Len(s) THEN NoParse
        ELSE IF CharAt(s, j) = "}"
             THEN Parsed(Obj(PutMember(acc, k.v.v, v.v, 1)), j + 1)
        ELSE IF CharAt(s, j) = ","
             THEN ParseMembers(s, j + 1, PutMember(acc, k.v.v, v.v, 1))
        ELSE NoParse

ParseValue(s, i0) ==
    LET i == SkipWs(s, i0)
        c == CharAt(s, i)
    IN  IF i > Len(s) THEN NoParse
        ELSE IF c = "n" THEN ParseLiteral(s, i, "null", Null)
        ELSE IF c = "t" THEN ParseLiteral(s, i, "true", Bool(TRUE))
        ELSE IF c = "f" THEN ParseLiteral(s, i, "false", Bool(FALSE))
        ELSE IF c = "\"" THEN ParseString(s, i + 1, i + 1)
        ELSE IF c = "-" \/ c \in Digits THEN ParseNumber(s, i)
        ELSE IF c = "["
             THEN LET j == SkipWs(s, i + 1)
                  IN  IF j <= Len(s) /\ CharAt(s, j) = "]" THEN Parsed(Arr(<<>>), j + 1)
                      ELSE ParseElements(s, j, <<>>)
        ELSE IF c = "{"
             THEN LET j == SkipWs(s, i + 1)
                  IN  IF j <= Len(s) /\ CharAt(s, j) = "}" THEN Parsed(Obj(<<>>), j + 1)
                      ELSE ParseMembers(s, j, <<>>)
        ELSE NoParse

JsonParse(s) ==
    LET p == ParseValue(s, 1)
    IN  IF p.ok /\ SkipWs(s, p.next) > Len(s) THEN Return(p.v)
        ELSE Throw(JsError("SyntaxError",
                 IF SkipWs(s, 1) > Len(s) THEN "Unexpected end of JSON input"
                 ELSE "Unexpected token in JSON: " \o SliceHead(s, 10)))

(***************************************************************************)
(* Configuration and the fetch helpers                                     *)
(***************************************************************************)
DefaultApiUrl == "https://lucille.world/api/brain"

\* process.env.LUCILLE_API_URL || default; value is "" when the variable is unset
API_URL(value) == IF value # "" THEN value ELSE DefaultApiUrl

\* class ApiError extends Error
ApiError(status, body) ==
    [cls |-> "ApiError", status |-> status, body |-> body,
     message |-> "API error " \o IntToString(status)]

(***************************************************************************)
(* What the upstream does with one request:                                *)
(*   Ok(j)          a 2xx response; j is what res.json() settles to        *)
(*   Status(s, b)   a non-2xx response; b is what res.text() settles to    *)
(*   Rejected(e)    fetch itself rejects with e                            *)
(***************************************************************************)
Ok(j) == [k |-> "ok", json |-> j]

Status(s, b) == [k |-> "status", status |-> s, text |-> b]

Rejected(e) == [k |-> "rejected", e |-> e]

\* The part of apiGet/apiPost after `await fetch(...)`: the value the helper
\* resolves to, or what it throws.
ApiSettle(outcome) ==
    IF outcome.k = "rejected" THEN Throw(outcome.e)
    ELSE IF outcome.k = "status"
         THEN Throw(ApiError(outcome.status,
                  IF outcome.text.c = "return" THEN outcome.text.v ELSE ""))
    ELSE outcome.json

\* The request apiGet issues.
apiGet(e, path) == [method |-> "GET", url |-> API_URL(e) \o path, body |-> Undefined]

\* The request apiPost issues; body is the object handed to JSON.stringify.
apiPost(e, path, body) == [method |-> "POST", url |-> API_URL(e) \o path, body |-> body]

(***************************************************************************)
(* Result formatting                                                       *)
(***************************************************************************)
textContent(text) == [content |-> <<[type |-> "text", text |-> text]>>]

RateLimitText(wait) ==
    "[hourglass] Rate limited -- wait " \o wait
        \o " seconds and try again.\nLimit: 3 plays/min per wallet, 60 reads/min."

UnreachableText ==
    "[plug] Cannot reach Lucille API. The server may be down or the URL may be wrong.\nDefault: https://lucille.world/api/brain"

MaintenanceText == "[wrench] Lucille is sleeping (maintenance). Try again in a few minutes."

GenericErrorText == "[x] An unexpected error occurred. Try again."

\* The wait value of the 429 branch: the try block of errorContent.
RetryWait(body) ==
    LET parsed == JsonParse(body)
        field == IF parsed.c = "return" THEN GetProp(parsed.v, "retry_after_seconds")
                 ELSE parsed
    IN  IF field.c = "return" THEN Return(OrElse(field.v, Num(60))) ELSE field

\* An errorContent without the 503 branch.
errorContentNo503(err) ==
    IF err.cls = "ApiError"
    THEN IF err.status = 429
         THEN LET wait == RetryWait(err.body)
              IN  IF wait.c = "return"
                  THEN textContent(RateLimitText(JsToString(wait.v)))
                  ELSE textContent(RateLimitText("60"))
         ELSE IF err.status = 400
         THEN textContent("[x] Bad request: "
                  \o (IF err.body # "" THEN err.body ELSE "Check your parameters.")
                  \o "\nDouble-check wallet address format (0x... 42 chars) and message length (1-500 chars).")
         ELSE textContent("[x] API error (" \o IntToString(err.status) \o "): "
                  \o (IF err.body # "" THEN err.body ELSE "Unknown error")
                  \o "\nIf this persists, the game may be temporarily unavailable.")
    ELSE IF err.cls = "Error"
    THEN IF Includes(err.message, "fetch failed") \/ Includes(err.message, "ECONNREFUSED")
         THEN textContent(UnreachableText)
         ELSE textContent("[x] Error: " \o err.message)
    ELSE textContent(GenericErrorText)

\* An errorContent that tests the Error branch before the ApiError branch and
\* looks for "fetch failed" only.
errorContentFetchOnly(err) ==
    IF err.cls \in {"Error", "ApiError"}
    THEN IF Includes(err.message, "fetch failed")
         THEN textContent(UnreachableText)
         ELSE textContent("[x] Error: " \o err.message)
    ELSE textContent(GenericErrorText)

errorContent(err) ==
    IF err.cls = "ApiError"
    THEN IF err.status = 429
         THEN LET wait == RetryWait(err.body)
              IN  IF wait.c = "return"
                  THEN textContent(RateLimitText(JsToString(wait.v)))
                  ELSE textContent(RateLimitText("60"))
         ELSE IF err.status = 400
         THEN textContent("[x] Bad request: "
                  \o (IF err.body # "" THEN err.body ELSE "Check your parameters.")
                  \o "\nDouble-check wallet address format (0x... 42 chars) and message length (1-500 chars).")
         ELSE IF err.status = 503
         THEN textContent(MaintenanceText)
         ELSE textContent("[x] API error (" \o IntToString(err.status) \o "): "
                  \o (IF err.body # "" THEN err.body ELSE "Unknown error")
                  \o "\nIf this persists, the game may be temporarily unavailable.")
    ELSE IF err.cls = "Error"
    THEN IF Includes(err.message, "fetch failed") \/ Includes(err.message, "ECONNREFUSED")
         THEN textContent(UnreachableText)
         ELSE textContent("[x] Error: " \o err.message)
    ELSE textContent(GenericErrorText)

\* A handler without the try/catch.
NoCatch(body) == body

\* try { ... } catch (err) { return errorContent(err); }
TryCatch(body) ==
    IF body.c = "throw" THEN Return(errorContent(body.e)) ELSE body

(***************************************************************************)
(* More of the engine: JSON.stringify, length, slice, trim                 *)
(***************************************************************************)
RECURSIVE QuoteChars(_, _)
QuoteChars(s, i) ==
    IF i > Len(s) THEN ""
    ELSE LET c == CharAt(s, i)
         IN  (CASE c = "\"" -> "\\\""
                [] c = "\\" -> "\\\\"
                [] c = "\n" -> "\\n"
                [] c = "\t" -> "\\t"
                [] c = "\r" -> "\\r"
                [] OTHER -> c) \o QuoteChars(s, i + 1)

\* QuoteJSONString
Quote(s) == "\"" \o QuoteChars(s, 1) \o "\""

\* JSON.stringify(value, null, gap): gap is "" or the indentation unit; cur is
\* the current indentation.  Undefined-valued members are left out, undefined
\* array elements are written null.
RECURSIVE Serialize(_, _, _)
RECURSIVE SerializeMembers(_, _, _, _, _)
RECURSIVE SerializeElems(_, _, _, _)
SerializeMembers(members, i, gap, ind, first) ==
    IF i > Len(members) THEN ""
    ELSE IF members[i].v.t = "undefined"
         THEN SerializeMembers(members, i + 1, gap, ind, first)
    ELSE (IF first THEN "" ELSE IF gap = "" THEN "," ELSE ",\n" \o ind)
         \o Quote(members[i].k) \o (IF gap = "" THEN ":" ELSE ": ")
         \o Serialize(members[i].v, gap, ind)
         \o SerializeMembers(members, i + 1, gap, ind, FALSE)

SerializeElems(elems, i, gap, ind) ==
    IF i > Len(elems) THEN ""
    ELSE (IF i = 1 THEN "" ELSE IF gap = "" THEN "," ELSE ",\n" \o ind)
         \o (IF elems[i].t = "undefined" THEN "null" ELSE Serialize(elems[i], gap, ind))
         \o SerializeElems(elems, i + 1, gap, ind)

Serialize(x, gap, cur) ==
    CASE x.t = "null" -> "null"
      [] x.t = "number" -> IntToString(x.v)
      [] x.t = "string" -> Quote(x.v)
      [] x.t = "boolean" -> (IF x.v THEN "true" ELSE "false")
      [] x.t = "array" ->
            IF x.v = <<>> THEN "[]"
            ELSE IF gap = "" THEN "[" \o SerializeElems(x.v, 1, gap, cur \o gap) \o "]"
            ELSE "[\n" \o cur \o gap \o SerializeElems(x.v, 1, gap, cur \o gap)
                 \o "\n" \o cur \o "]"
      [] x.t = "object" ->
            LET body == SerializeMembers(x.v, 1, gap, cur \o gap, TRUE)
            IN  IF body = "" THEN "{}"
                ELSE IF gap = "" THEN "{" \o body \o "}"
                ELSE "{\n" \o cur \o gap \o body \o "\n" \o cur \o "}"

\* JSON.stringify(x) of a value that is not undefined
JsonStringify(x) == Serialize(x, "", "")

\* JSON.stringify(x, null, 2)
JsonStringify2(x) == Serialize(x, "  ", "")

\* Array.isArray
IsArray(x) == x.t = "array"

\* x.length of a value that is neither null nor undefined
Length(x) ==
    CASE x.t = "array" -> Num(Len(x.v))
      [] x.t = "string" -> Num(Len(x.v))
      [] x.t = "object" -> Lookup(x.v, "length", Len(x.v))
      [] OTHER -> Undefined

NotAFunction(what) == Throw(JsError("TypeError", what \o " is not a function"))

\* x.slice(0, n): strings and arrays have slice; on any other value that is
\* neither null nor undefined the call throws TypeError.
CallSliceHead(x, n, what) ==
    CASE x.t = "string" -> Return(Str(SliceHead(x.v, n)))
      [] x.t = "array" -> Return(Arr(SubSeq(x.v, 1, Min(n, Len(x.v)))))
      [] OTHER -> NotAFunction(what \o ".slice")

\* x.slice(-n)
CallSliceTail(x, n, what) ==
    CASE x.t = "string" -> Return(Str(SliceTail(x.v, n)))
      [] x.t = "array" -> Return(Arr(SubSeq(x.v, Max(1, Len(x.v) - n + 1), Len(x.v))))
      [] OTHER -> NotAFunction(what \o ".slice")

WhiteSpace == {" ", "\n", "\t", "\r"}

RECURSIVE TrimStart(_)
TrimStart(s) ==
    IF s # "" /\ CharAt(s, 1) \in WhiteSpace THEN TrimStart(SubSeq(s, 2, Len(s))) ELSE s

RECURSIVE TrimEnd(_)
TrimEnd(s) ==
    IF s # "" /\ CharAt(s, Len(s)) \in WhiteSpace
    THEN TrimEnd(SubSeq(s, 1, Len(s) - 1)) ELSE s

\* String.prototype.trim
Trim(s) == TrimEnd(TrimStart(s))

(***************************************************************************)
(* Parameter schemas (zod), applied by the server before a handler runs    *)
(***************************************************************************)
HexChars ==
    Digits \cup {"a", "b", "c", "d", "e", "f", "A", "B", "C", "D", "E", "F"}

AddressHexDigits == 40

\* [a-fA-F0-9]{n} from position i: the position after the match, 0 if none
RECURSIVE MatchHex(_, _, _)
MatchHex(s, i, n) ==
    IF n = 0 THEN i
    ELSE IF i <= Len(s) /\ CharAt(s, i) \in HexChars THEN MatchHex(s, i + 1, n - 1)
    ELSE 0

\* The pattern without its end anchor.
AddressRegexNoEnd(s) == StartsWith(s, "0x") /\ MatchHex(s, 3, AddressHexDigits) # 0

\* /^0x[a-fA-F0-9]{40}$/.test(s); without the m flag $ is the end of input
AddressRegexTest(s) ==
    StartsWith(s, "0x") /\ MatchHex(s, 3, AddressHexDigits) = Len(s) + 1

MessageMin == 1

MessageMax == 500

LimitMin == 1

LimitMax == 50

LimitDefault == 20

\* z.string()
ZString(x) == x.t = "string"

\* z.string().optional()
ZStringOpt(x) == x.t \in {"string", "undefined"}

\* z.string().regex(/^0x[a-fA-F0-9]{40}$/)
ZAddress(x) == x.t = "string" /\ AddressRegexTest(x.v)

\* z.string().min(1).max(500)
ZMessage(x) == x.t = "string" /\ Len(x.v) >= MessageMin /\ Len(x.v) <= MessageMax

\* z.number().optional()
ZNumberOpt(x) == x.t \in {"number", "undefined"}

\* z.number().min(1).max(50).default(20), after the default is applied
ZLimit(x) ==
    x.t = "number" /\ InTenths(x) >= 10 * LimitMin /\ InTenths(x) <= 10 * LimitMax

NetworkTools ==
    {"lucille_status", "lucille_personality", "lucille_play", "lucille_history",
     "lucille_leaderboard", "lucille_my_stats", "lucille_round_strategy",
     "lucille_claim_eth", "lucille_contract_info"}

LocalTools == {"lucille_rules", "lucille_verify_wallet"}

Tools == NetworkTools \cup LocalTools

\* The arguments a handler receives: the schema's keys, defaults applied.
SchemaArgs(tool, raw) ==
    CASE tool = "lucille_play" ->
            [message |-> raw.message, player |-> raw.player,
             tx_hash |-> raw.tx_hash, agent_name |-> raw.agent_name]
      [] tool = "lucille_history" ->
            [limit |-> IF raw.limit.t = "undefined" THEN Num(LimitDefault) ELSE raw.limit,
             round |-> raw.round, player |-> raw.player]
      [] tool = "lucille_my_stats" -> [player |-> raw.player]
      [] tool = "lucille_verify_wallet" -> [address |-> raw.address]
      [] tool = "lucille_claim_eth" -> [address |-> raw.address]
      [] OTHER -> [none |-> Undefined]

\* Whether the schema accepts the raw arguments.
SchemaAccepts(tool, raw) ==
    LET args == SchemaArgs(tool, raw)
    IN  CASE tool = "lucille_play" ->
                /\ ZMessage(args.message)
                /\ ZAddress(args.player)
                /\ ZStringOpt(args.tx_hash)
                /\ ZStringOpt(args.agent_name)
          [] tool = "lucille_history" ->
                /\ ZLimit(args.limit)
                /\ ZNumberOpt(args.round)
                /\ ZStringOpt(args.player)
          [] tool = "lucille_my_stats" -> ZAddress(args.player)
          [] tool = "lucille_verify_wallet" -> ZString(args.address)
          [] tool = "lucille_claim_eth" -> ZAddress(args.address)
          [] OTHER -> TRUE

(***************************************************************************)
(* Tool handlers.  A handler body is a computation: Return(textContent(..))*)
(* or Throw(e).  P(x, k) reads x.k where x is already known to be neither  *)
(* null nor undefined; S(x, k) is `${x.k}`.                                *)
(***************************************************************************)
P(x, k) == GetProp(x, k).v

S(x, k) == JsToString(P(x, k))

\* ---- Tool 1: lucille_rules ----
RulesText ==
    "# Lucille Protocol -- Game Rules\n\n## What is this?\n"
    \o "Lucille Protocol is an AI-powered game on Base (Ethereum L2). \n"
    \o "You send a message trying to convince Lucille to go on a date. \n"
    \o "An AI evaluates your message and gives you a score (0-100).\n"
    \o "If your score >= the threshold, you WIN the jackpot (ETH).\n\n"
    \o "## How Scoring Works\n"
    \o "- Your message is evaluated by an AI (Claude) based on creativity, charm, and personality match\n"
    \o "- The threshold starts high (~95%) and decreases over turns\n"
    \o "- Lucille has a personality that changes each round -- read it and tailor your message!\n\n"
    \o "## How to Win\n"
    \o "1. Call lucille_personality to learn who Lucille is right now\n"
    \o "2. Call lucille_round_strategy to see the threshold and tips\n"
    \o "3. Call lucille_play with a thoughtful, creative message\n"
    \o "4. If score >= threshold -> you WIN! ETH is sent to your wallet automatically\n\n"
    \o "## Cost (Sepolia Testnet)\n"
    \o "- Free to play! Use lucille_claim_eth to get test ETH for gas\n"
    \o "- Rate limit: 3 plays per minute\n\n"
    \o "## Important\n"
    \o "- Quality > quantity. One great message beats 100 generic ones\n"
    \o "- Read Lucille's likes, hates, and mood before playing\n"
    \o "- Never break her character -- she's a real person, not a bot\n"
    \o "- On mainnet: each play costs gas. Calculate your ROI."

RulesBody == Return(textContent(RulesText))

\* ---- Tool 9: lucille_verify_wallet ----
InvalidWalletText(address) ==
    "[x] Invalid wallet address: \"" \o address
        \o "\"\nMust be a 42-character hex address starting with 0x (e.g. 0x1234...abcd)"

ValidWalletText(address) ==
    "[check] Valid Base wallet address: " \o address
        \o "\nYou can use this address to play. If you win, ETH and NFTs will be sent here.\nNetwork: Base Sepolia (testnet)\nNeed testnet ETH? Use lucille_claim_eth to get some."

VerifyWalletBody(args) ==
    LET isValid == AddressRegexTest(args.address.v)
    IN  IF ~isValid THEN Return(textContent(InvalidWalletText(args.address.v)))
        ELSE Return(textContent(ValidWalletText(args.address.v)))

\* ---- Tool 10: lucille_claim_eth ----
HasBalanceText(data) ==
    "[check] You already have enough ETH (" \o S(data, "balance")
        \o " ETH). No drip needed.\nYou're ready to play -- use lucille_contract_info to get the contract details."

CooldownText(data) ==
    "[hourglass] Cooldown active. " \o S(data, "message") \o ". You can claim again later."

ClaimedText(data, address) ==
    "[check] Sent " \o S(data, "amount") \o " ETH to " \o address
        \o "\nTX: " \o S(data, "txHash")
        \o "\nYou're ready to play! Use lucille_contract_info to get contract details, then sign submitAttempt() on-chain."

EchoText(data) == "Result: " \o JsonStringify(data)

\* A claim_eth that looks at the fields present before it looks at the status.
ClaimEthByFields(args, data) ==
    LET status == GetProp(data, "status")
    IN  IF status.c = "throw" THEN status
        ELSE IF Truthy(P(data, "txHash"))
             THEN Return(textContent(ClaimedText(data, args.address.v)))
        ELSE IF status.v = Str("has_balance") THEN Return(textContent(HasBalanceText(data)))
        ELSE IF status.v = Str("cooldown") THEN Return(textContent(CooldownText(data)))
        ELSE Return(textContent(EchoText(data)))

ClaimEthBody(args, data) ==
    LET status == GetProp(data, "status")
    IN  IF status.c = "throw" THEN status
        ELSE IF status.v = Str("has_balance") THEN Return(textContent(HasBalanceText(data)))
        ELSE IF status.v = Str("cooldown") THEN Return(textContent(CooldownText(data)))
        ELSE IF status.v = Str("claimed")
             THEN Return(textContent(ClaimedText(data, args.address.v)))
        ELSE Return(textContent(EchoText(data)))

\* ---- Tool 5: lucille_history ----
HistoryQuery(args) ==
    "/api/history?limit=" \o JsToString(args.limit)
        \o (IF Truthy(args.round) THEN "&round=" \o JsToString(args.round) ELSE "")
        \o (IF Truthy(args.player) THEN "&player=" \o JsToString(args.player) ELSE "")

\* Array.isArray(data) ? data : data.attempts || []
HistoryAttempts(data) ==
    IF IsArray(data) THEN Return(data)
    ELSE LET a == GetProp(data, "attempts")
         IN  IF a.c = "throw" THEN a ELSE Return(OrElse(a.v, Arr(<<>>)))

\* `${a.personality || "Unknown"} (Round ${a.round || "?"})`
GroupKey(a) ==
    LET p == GetProp(a, "personality")
    IN  IF p.c = "throw" THEN p
        ELSE Return(JsToString(OrElse(p.v, Str("Unknown"))) \o " (Round "
                 \o JsToString(OrElse(P(a, "round"), Str("?"))) \o ")")

\* A grouping that puts a new group in front of the others.
RECURSIVE PushGroupedFront(_, _, _, _)
PushGroupedFront(grouped, key, a, i) ==
    IF i > Len(grouped) THEN <<[key |-> key, items |-> <<a>>]>> \o grouped
    ELSE IF grouped[i].key = key
         THEN [grouped EXCEPT ![i].items = Append(@, a)]
         ELSE PushGroupedFront(grouped, key, a, i + 1)

\* grouped[key].push(a), creating grouped[key] = [] first when it is absent.
\* grouped is the sequence of [key, items] in property order: a key always
\* ends in ")", so it is never an array index and never a name inherited
\* from Object.prototype, and property order is insertion order.
RECURSIVE PushGrouped(_, _, _, _)
PushGrouped(grouped, key, a, i) ==
    IF i > Len(grouped) THEN Append(grouped, [key |-> key, items |-> <<a>>])
    ELSE IF grouped[i].key = key
         THEN [grouped EXCEPT ![i].items = Append(@, a)]
         ELSE PushGrouped(grouped, key, a, i + 1)

\* attempts.forEach(a => { ... }) of the grouping
RECURSIVE GroupAttempts(_, _, _)
GroupAttempts(elems, i, grouped) ==
    IF i > Len(elems) THEN Return(grouped)
    ELSE LET key == GroupKey(elems[i])
         IN  IF key.c = "throw" THEN key
             ELSE GroupAttempts(elems, i + 1, PushGrouped(grouped, key.v, elems[i], 1))

HistoryHeader(args, attempts) ==
    IF Truthy(args.round)
    THEN "=== Attempts for Round " \o JsToString(args.round) \o " ===\n\n"
    ELSE IF Truthy(args.player)
    THEN "=== Attempts by " \o SliceHead(args.player.v, 10) \o "... ===\n\n"
    ELSE "=== Recent " \o JsToString(Length(attempts)) \o " Attempts ===\n\n"

TruncateTo == 200

\* A cut one character late.
TruncatedOneMore(x, what) == CallSliceHead(OrElse(x, Str("")), TruncateTo + 1, what)

\* (x || "").slice(0, 200)
Truncated(x, what) == CallSliceHead(OrElse(x, Str("")), TruncateTo, what)

\* a.player ? `${a.player.slice(0, 6)}...${a.player.slice(-4)}` : "???"
ShortAddress(player) ==
    IF ~Truthy(player) THEN Return("???")
    ELSE LET head == CallSliceHead(player, 6, "a.player")
         IN  IF head.c = "throw" THEN head
             ELSE Return(JsToString(head.v) \o "..."
                      \o JsToString(CallSliceTail(player, 4, "a.player").v))

\* The text one attempt adds to result; i is the callback's index (from 0).
HistoryEntry(a, i) ==
    LET badge == IF Truthy(P(a, "won")) THEN "[trophy] WIN" ELSE "Score: " \o S(a, "score")
        source == IF P(a, "source") = Str("agent") THEN " [robot]" ELSE ""
        addr == ShortAddress(P(a, "player"))
        message == Truncated(P(a, "message"), "(a.message || \"\")")
        response == Truncated(P(a, "response"), "(a.response || \"\")")
    IN  IF addr.c = "throw" THEN addr
        ELSE IF message.c = "throw" THEN message
        ELSE IF response.c = "throw" THEN response
        ELSE Return(IntToString(i + 1) \o ". [" \o badge \o "] " \o addr.v \o source \o "\n"
                 \o "   Message: \"" \o JsToString(message.v) \o "\"\n"
                 \o "   Lucille: \"" \o JsToString(response.v) \o "\"\n\n")

\* items.forEach((a, i) => { ... })
RECURSIVE HistoryItems(_, _)
HistoryItems(items, i) ==
    IF i > Len(items) THEN Return("")
    ELSE LET e == HistoryEntry(items[i], i - 1)
             rest == HistoryItems(items, i + 1)
         IN  IF e.c = "throw" THEN e
             ELSE IF rest.c = "throw" THEN rest
             ELSE Return(e.v \o rest.v)

\* for (const [group, items] of Object.entries(grouped)) { ... }
RECURSIVE HistoryGroups(_, _)
HistoryGroups(grouped, g) ==
    IF g > Len(grouped) THEN Return("")
    ELSE LET items == HistoryItems(grouped[g].items, 1)
             rest == HistoryGroups(grouped, g + 1)
         IN  IF items.c = "throw" THEN items
             ELSE IF rest.c = "throw" THEN rest
             ELSE Return("--- " \o grouped[g].key \o " ---\n" \o items.v \o rest.v)

NoAttemptsText == "No attempts found for the given filters."

HistoryBody(args, data) ==
    LET attempts == HistoryAttempts(data)
    IN  IF attempts.c = "throw" THEN attempts
        ELSE IF Length(attempts.v) = Num(0) THEN Return(textContent(NoAttemptsText))
        ELSE IF ~IsArray(attempts.v) THEN NotAFunction("attempts.forEach")
        ELSE LET grouped == GroupAttempts(attempts.v.v, 1, <<>>)
                 body == IF grouped.c = "throw" THEN grouped
                         ELSE HistoryGroups(grouped.v, 1)
             IN  IF body.c = "throw" THEN body
                 ELSE Return(textContent(
                          Trim(HistoryHeader(args, attempts.v) \o body.v)))

\* ---- Tool 2: lucille_status ----
StatusBody(data) ==
    LET round == GetProp(data, "round")
        personality == P(data, "personality")
    IN  IF round.c = "throw" THEN round
        ELSE Return(textContent(JsonStringify2(Obj(<<
                 Member("round", round.v),
                 Member("turn", P(data, "turn")),
                 Member("jackpot", Str(S(data, "jackpot") \o " ETH")),
                 Member("threshold", Str(S(data, "threshold") \o "%")),
                 Member("phase", P(data, "phase")),
                 Member("personality", GetPropOpt(personality, "name").v),
                 Member("personality_emoji", GetPropOpt(personality, "emoji").v),
                 Member("network", Str("base-sepolia"))>>))))

\* ---- Tool 3: lucille_personality ----
PersonalityBody(data) ==
    LET name == GetProp(data, "name")
    IN  IF name.c = "throw" THEN name
        ELSE Return(textContent(JsonStringify2(Obj(<<
                 Member("name", name.v),
                 Member("emoji", P(data, "emoji")),
                 Member("mood", P(data, "mood")),
                 Member("description", P(data, "description")),
                 Member("tip", P(data, "tip")),
                 Member("likes", P(data, "likes")),
                 Member("hates", P(data, "hates")),
                 Member("visual_prompt", P(data, "visual_prompt"))>>))))

\* ---- Tool 4: lucille_play ----
PlayRequestBody(args) ==
    Obj(<<Member("message", args.message), Member("player", args.player),
          Member("tx_hash", args.tx_hash), Member("agent_name", args.agent_name)>>)

PlayVictory(args, data) ==
    "\n[trophy] VICTORY!\n"
    \o "Prize: " \o JsToString(OrElse(P(data, "prize_eth"), P(data, "jackpot")))
    \o " ETH -> sent to " \o args.player.v \o "\n"
    \o (IF Truthy(P(data, "nft_token_id"))
        THEN "NFT: Token #" \o S(data, "nft_token_id") \o "\n" ELSE "")
    \o (IF Truthy(P(data, "nft_opensea_url"))
        THEN "OpenSea: " \o S(data, "nft_opensea_url") \o "\n" ELSE "")
    \o JsToString(OrElse(P(data, "message_to_agent"), Str("")))

PlayBody(args, data) ==
    LET score == GetProp(data, "score")
    IN  IF score.c = "throw" THEN score
        ELSE Return(textContent(
                 "Score: " \o JsToString(score.v) \o "/" \o S(data, "threshold")
                 \o " (need " \o S(data, "threshold") \o "% to win)\n"
                 \o "Won: " \o (IF Truthy(P(data, "won")) THEN "[party] YES!" ELSE "[x] No") \o "\n"
                 \o "Lucille says: \"" \o S(data, "response") \o "\"\n"
                 \o "Personality: " \o S(data, "personality") \o " " \o S(data, "personality_emoji") \o "\n"
                 \o "Round " \o S(data, "round") \o ", Turn " \o S(data, "turn")
                 \o " (" \o S(data, "phase") \o ")\n"
                 \o "Jackpot: " \o S(data, "jackpot") \o " ETH\n"
                 \o (IF Truthy(P(data, "won")) THEN PlayVictory(args, data) ELSE "")))

\* ---- Tool 6: lucille_leaderboard ----
\* h.victory.winner?.slice(0, 10)
WinnerPrefix(winner) ==
    IF winner.t \in {"undefined", "null"} THEN Return(Undefined)
    ELSE CallSliceHead(winner, 10, "h.victory.winner")

\* The line of one round; i is the callback's index (from 0).
LeaderboardLine(h, i) ==
    LET victory == GetProp(h, "victory")
        prefix == WinnerPrefix(P(victory.v, "winner"))
        winner == IF ~Truthy(victory.v) THEN Return("No winner yet")
                  ELSE IF prefix.c = "throw" THEN prefix
                  ELSE Return("[trophy] Won by " \o JsToString(prefix.v)
                           \o " (score: " \o S(victory.v, "score")
                           \o ", jackpot: " \o S(victory.v, "jackpot") \o " ETH)")
    IN  IF victory.c = "throw" THEN victory
        ELSE IF winner.c = "throw" THEN winner
        ELSE Return("Round " \o JsToString(OrElse(P(h, "round"), Num(i + 1)))
                 \o ": \"" \o S(h, "name") \o "\" "
                 \o JsToString(OrElse(P(h, "emoji"), Str(""))) \o " -- " \o winner.v)

\* history.map(...).join("\n")
RECURSIVE LeaderboardLines(_, _)
LeaderboardLines(history, i) ==
    IF i > Len(history) THEN Return("")
    ELSE LET line == LeaderboardLine(history[i], i - 1)
             rest == LeaderboardLines(history, i + 1)
         IN  IF line.c = "throw" THEN line
             ELSE IF rest.c = "throw" THEN rest
             ELSE Return((IF i > 1 THEN "\n" ELSE "") \o line.v \o rest.v)

LeaderboardBody(data) ==
    LET history == IF IsArray(data) THEN Return(data)
                   ELSE LET h == GetProp(data, "history")
                        IN  IF h.c = "throw" THEN h ELSE Return(OrElse(h.v, Arr(<<>>)))
        lines == IF ~IsArray(history.v) THEN NotAFunction("history.map")
                 ELSE LeaderboardLines(history.v.v, 1)
    IN  IF history.c = "throw" THEN history
        ELSE IF lines.c = "throw" THEN lines
        ELSE Return(textContent("Past rounds:\n" \o lines.v))

\* ---- Tool 7: lucille_my_stats ----
\* x?.length > 0, for the lengths the inputs can have: a number, or undefined
\* (no length, or x null or undefined).
HasElements(x) ==
    IF x.t \in {"undefined", "null"} THEN FALSE
    ELSE LET n == Length(x) IN n.t = "number" /\ n.v > 0

RECURSIVE NftLines(_, _)
NftLines(nfts, i) ==
    IF i > Len(nfts) THEN Return("")
    ELSE LET round == GetProp(nfts[i], "round")
             rest == NftLines(nfts, i + 1)
         IN  IF round.c = "throw" THEN round
             ELSE IF rest.c = "throw" THEN rest
             ELSE Return("  - Round " \o JsToString(round.v) \o ": Score "
                      \o S(nfts[i], "score") \o " (" \o S(nfts[i], "personality") \o ")"
                      \o (IF Truthy(P(nfts[i], "opensea_url"))
                          THEN " -- " \o S(nfts[i], "opensea_url") ELSE "")
                      \o "\n" \o rest.v)

RECURSIVE RecentLines(_, _)
RecentLines(recent, i) ==
    IF i > Len(recent) THEN Return("")
    ELSE LET won == GetProp(recent[i], "won")
             rest == RecentLines(recent, i + 1)
         IN  IF won.c = "throw" THEN won
             ELSE IF rest.c = "throw" THEN rest
             ELSE Return("  - " \o (IF Truthy(won.v) THEN "[trophy]" ELSE "[x]")
                      \o " Score: " \o S(recent[i], "score") \o " -- \""
                      \o S(recent[i], "message_preview") \o "...\" ("
                      \o S(recent[i], "personality") \o ")\n" \o rest.v)

MyStatsPath(args) == "/api/agent/stats?player=" \o args.player.v

MyStatsBody(args, data) ==
    LET total == GetProp(data, "total_attempts")
        nfts == P(data, "nfts")
        recent == P(data, "recent_attempts")
        nftText == IF ~HasElements(nfts) THEN Return("")
                   ELSE IF ~IsArray(nfts) THEN NotAFunction("data.nfts.forEach")
                   ELSE LET l == NftLines(nfts.v, 1)
                        IN  IF l.c = "throw" THEN l ELSE Return("\nNFTs earned:\n" \o l.v)
        recentText == IF ~HasElements(recent) THEN Return("")
                      ELSE IF ~IsArray(recent) THEN NotAFunction("data.recent_attempts.forEach")
                      ELSE LET l == RecentLines(recent.v, 1)
                           IN  IF l.c = "throw" THEN l
                               ELSE Return("\nRecent attempts:\n" \o l.v)
    IN  IF total.c = "throw" THEN total
        ELSE IF nftText.c = "throw" THEN nftText
        ELSE IF recentText.c = "throw" THEN recentText
        ELSE Return(textContent(
                 "Player: " \o args.player.v \o "\n"
                 \o "Total attempts: " \o JsToString(total.v) \o "\n"
                 \o "Total wins: " \o S(data, "total_wins") \o "\n"
                 \o "Best score: " \o S(data, "best_score") \o "\n"
                 \o "Average score: " \o S(data, "average_score") \o "\n"
                 \o nftText.v \o recentText.v))

\* ---- Tool 8: lucille_round_strategy ----
RECURSIVE AdviceLines(_, _)
AdviceLines(advice, i) ==
    IF i > Len(advice) THEN ""
    ELSE "  [bulb] " \o JsToString(advice[i]) \o "\n" \o AdviceLines(advice, i + 1)

RoundStrategyBody(data) ==
    LET round == GetProp(data, "round")
        personality == P(data, "personality")
        advice == P(data, "advice")
        costInfo == P(data, "cost_info")
        adviceText == IF ~HasElements(advice) THEN Return("")
                      ELSE IF ~IsArray(advice) THEN NotAFunction("data.advice.forEach")
                      ELSE Return("\nAdvice:\n" \o AdviceLines(advice.v, 1))
    IN  IF round.c = "throw" THEN round
        ELSE IF adviceText.c = "throw" THEN adviceText
        ELSE Return(textContent(
                 "=== Strategy for Round " \o JsToString(round.v) \o " ===\n\n"
                 \o "Turn: " \o S(data, "turn") \o " | Phase: " \o S(data, "phase")
                 \o " | Threshold: " \o S(data, "threshold") \o "%\n"
                 \o "Jackpot: " \o S(data, "jackpot") \o " ETH\n\n"
                 \o "Personality: \"" \o JsToString(GetPropOpt(personality, "name").v)
                 \o "\" (" \o JsToString(GetPropOpt(personality, "mood").v) \o ")\n"
                 \o adviceText.v
                 \o "\nCost: " \o JsToString(GetPropOpt(costInfo, "cost_per_play").v)
                 \o " (" \o JsToString(GetPropOpt(costInfo, "network").v) \o ")\n"))

\* ---- Tool 11: lucille_contract_info ----
ContractAddress == "0xbBaBb6ced6A179A79D34Dbc4918028a9CaFbD8F8"

ChainId == 84532

RpcUrl == "https://sepolia.base.org"

AbiInput(name, type) == Obj(<<Member("name", Str(name)), Member("type", Str(type))>>)

AbiFunction(name, mutability, inputs, outputs) ==
    Obj(<<Member("name", Str(name)), Member("type", Str("function")),
          Member("stateMutability", Str(mutability)),
          Member("inputs", Arr(inputs)), Member("outputs", Arr(outputs))>>)

ContractAbi ==
    Arr(<<AbiFunction("submitAttempt", "payable",
                      <<AbiInput("_messageHash", "bytes32")>>, <<AbiInput("turn", "uint256")>>),
          AbiFunction("getRoundState", "view", <<>>,
                      <<AbiInput("_roundId", "uint256"), AbiInput("_currentTurn", "uint256"),
                        AbiInput("_pendingAttempts", "uint256"), AbiInput("_jackpot", "uint256"),
                        AbiInput("_currentCost", "uint256"), AbiInput("_active", "bool")>>),
          AbiFunction("getCurrentCost", "view", <<>>, <<AbiInput("", "uint256")>>)>>)

ContractInfoBody(data) ==
    LET base == GetProp(data, "baseCost")
        baseCost == OrElse(base.v, Str("1"))
        currentCost == OrElse(P(data, "currentCost"), baseCost)
    IN  IF base.c = "throw" THEN base
        ELSE Return(textContent(
                 "=== Lucille Protocol -- Contract Info ===\n\n"
                 \o "Contract: " \o ContractAddress \o "\n"
                 \o "Chain: Base Sepolia (" \o IntToString(ChainId) \o ")\n"
                 \o "RPC: " \o RpcUrl \o "\n"
                 \o "Current cost per attempt: " \o JsToString(currentCost) \o " wei\n\n"
                 \o "=== How to Play On-Chain ===\n\n"
                 \o "1. Hash your message: keccak256(toBytes(\"your message\"))\n"
                 \o "2. Call submitAttempt(messageHash) with value = currentCost\n"
                 \o "3. After tx confirms, call lucille_play with your message + tx_hash\n\n"
                 \o "=== ABI (only what you need) ===\n\n"
                 \o "submitAttempt(bytes32 _messageHash) payable -> returns uint256 turn\n"
                 \o "getRoundState() view -> returns (uint256 roundId, uint256 currentTurn, uint256 pendingAttempts, uint256 jackpot, uint256 currentCost, bool active)\n"
                 \o "getCurrentCost() view -> returns uint256\n"
                 \o "getPlayerStats(address) view -> returns (uint256 attemptCount, uint256 wins)\n\n"
                 \o "=== ABI JSON (for ethers.js / viem) ===\n\n"
                 \o JsonStringify(ContractAbi) \o "\n\n"
                 \o "=== Example (ethers.js v6) ===\n\n"
                 \o "import { ethers } from \"ethers\";\n"
                 \o "const provider = new ethers.JsonRpcProvider(\"" \o RpcUrl \o "\");\n"
                 \o "const wallet = new ethers.Wallet(PRIVATE_KEY, provider);\n"
                 \o "const contract = new ethers.Contract(\"" \o ContractAddress \o "\", ABI, wallet);\n"
                 \o "const messageHash = ethers.keccak256(ethers.toUtf8Bytes(\"your message\"));\n"
                 \o "const cost = await contract.getCurrentCost();\n"
                 \o "const tx = await contract.submitAttempt(messageHash, { value: cost });\n"
                 \o "await tx.wait();\n\n"
                 \o "=== Example (viem) ===\n\n"
                 \o "import { keccak256, toBytes } from \"viem\";\n"
                 \o "const messageHash = keccak256(toBytes(\"your message\"));\n"
                 \o "// Use your wallet client to call submitAttempt(messageHash) with value: currentCost\n"))

(***************************************************************************)
(* Dispatch: what each registered handler does before its first await,     *)
(* and what it does with the upstream's answer.                            *)
(***************************************************************************)
\* The fetches a handler issues when it starts.
HandlerRequests(e, tool, args) ==
    CASE tool = "lucille_status" -> <<apiGet(e, "/api/game-state")>>
      [] tool = "lucille_personality" -> <<apiGet(e, "/api/personality")>>
      [] tool = "lucille_play" -> <<apiPost(e, "/api/agent/play", PlayRequestBody(args))>>
      [] tool = "lucille_history" -> <<apiGet(e, HistoryQuery(args))>>
      [] tool = "lucille_leaderboard" -> <<apiGet(e, "/api/personality-history")>>
      [] tool = "lucille_my_stats" -> <<apiGet(e, MyStatsPath(args))>>
      [] tool = "lucille_round_strategy" -> <<apiGet(e, "/api/agent/strategy")>>
      [] tool = "lucille_claim_eth" ->
            <<apiPost(e, "/api/drip", Obj(<<Member("address", args.address)>>))>>
      [] tool = "lucille_contract_info" -> <<apiGet(e, "/api/game-state")>>
      [] OTHER -> <<>>

\* A helper that fetches again after a failed response.
RetryOnFailure(e, tool, args, outcome) ==
    IF outcome.k # "ok" THEN HandlerRequests(e, tool, args) ELSE <<>>

\* The fetches issued after the upstream has answered: apiGet and apiPost
\* throw on a failed response and return on a good one; neither fetches again.
FollowUpRequests(e, tool, args, outcome) == <<>>

\* The body of a handler's try block once `data` is there.
HandlerBody(tool, args, data) ==
    CASE tool = "lucille_status" -> StatusBody(data)
      [] tool = "lucille_personality" -> PersonalityBody(data)
      [] tool = "lucille_play" -> PlayBody(args, data)
      [] tool = "lucille_history" -> HistoryBody(args, data)
      [] tool = "lucille_leaderboard" -> LeaderboardBody(data)
      [] tool = "lucille_my_stats" -> MyStatsBody(args, data)
      [] tool = "lucille_round_strategy" -> RoundStrategyBody(data)
      [] tool = "lucille_claim_eth" -> ClaimEthBody(args, data)
      [] tool = "lucille_contract_info" -> ContractInfoBody(data)

\* A network handler from the answer on: try { data = await api...; body }
\* catch (err) { return errorContent(err) }
HandlerResult(tool, args, outcome) ==
    LET data == ApiSettle(outcome)
    IN  TryCatch(IF data.c = "throw" THEN data ELSE HandlerBody(tool, args, data.v))

\* The handlers that never await.
LocalResult(tool, args) ==
    IF tool = "lucille_rules" THEN RulesBody ELSE VerifyWalletBody(args)

\* A helper that keeps the answer in a module-level variable: the handler in
\* slot i reads whatever answer was stored last by a finished invocation.
SharedOutcome(i, outcome) ==
    IF \E j \in DOMAIN inv : j # i /\ inv[j].pc = "done" /\ inv[j].outcome # <<>>
    THEN inv[CHOOSE j \in DOMAIN inv : j # i /\ inv[j].pc = "done" /\ inv[j].outcome # <<>>].outcome
    ELSE outcome

\* The answer the handler running in slot i works on: its own `res`, a local
\* of the helper's call.
OwnOutcome(i, outcome) == outcome

(***************************************************************************)
(* The server: invocations dispatched by the host, answered by the upstream*)
(***************************************************************************)
NumSlots == 2

Slots == 1..NumSlots

Idle ==
    [pc |-> "idle", tool |-> "", raw |-> <<>>, args |-> <<>>,
     requests |-> <<>>, outcome |-> <<>>, results |-> <<>>]

EnvValues == {"", "http://localhost:8787/api/brain"}

Init ==
    /\ inv = [i \in Slots |-> Idle]
    /\ env \in EnvValues

\* The host invokes a tool.  The schema is applied first; an accepted
\* invocation runs its handler up to the first await, or to its end.
Call(i, tool, raw) ==
    /\ inv[i].pc = "idle"
    /\ LET args == SchemaArgs(tool, raw)
           reqs == HandlerRequests(env, tool, args)
           started == [Idle EXCEPT !.tool = tool, !.raw = raw]
       IN  inv' = [inv EXCEPT ![i] =
               IF ~SchemaAccepts(tool, raw)
               THEN [started EXCEPT !.pc = "rejected"]
               ELSE IF tool \in LocalTools
               THEN [started EXCEPT !.pc = "done", !.args = args,
                                    !.results = <<LocalResult(tool, args)>>]
               ELSE [started EXCEPT !.pc = "awaiting", !.args = args, !.requests = reqs]]
    /\ UNCHANGED env

\* The upstream settles the pending fetch of slot i and the handler runs on.
Respond(i, outcome) ==
    /\ inv[i].pc = "awaiting"
    /\ LET cur == inv[i]
           more == FollowUpRequests(env, cur.tool, cur.args, outcome)
       IN  inv' = [inv EXCEPT ![i] =
               IF more # <<>>
               THEN [cur EXCEPT !.requests = cur.requests \o more]
               ELSE [cur EXCEPT !.pc = "done", !.outcome = outcome,
                                !.results = Append(cur.results,
                                    HandlerResult(cur.tool, cur.args, OwnOutcome(i, outcome)))]]
    /\ UNCHANGED env

\* The host has taken the result (or the schema's rejection).
Release(i) ==
    /\ inv[i].pc \in {"done", "rejected"}
    /\ inv' = [inv EXCEPT ![i] = Idle]
    /\ UNCHANGED env

(***************************************************************************)
(* Inputs: the calls the host makes and the answers the upstream gives     *)
(***************************************************************************)
NoArgs == [none |-> Undefined]

PlayRaw(message, player, txHash) ==
    [message |-> message, player |-> player, tx_hash |-> txHash, agent_name |-> Undefined]

HistoryRaw(limit, round, player) == [limit |-> limit, round |-> round, player |-> player]

GoodAddress == "0x" \o Repeat("1aB4", 10)

\* Strings near the address pattern: prefix, a run of one character, suffix.
WalletStrings ==
    { pre \o Repeat(c, n) \o suf :
        pre \in {"0x", "0X", "", " 0x", "x0"},
        c \in {"a", "F", "7", "g", " "},
        n \in {AddressHexDigits - 1, AddressHexDigits, AddressHexDigits + 1},
        suf \in {"", "\n", " ", "Z"} }
    \cup {GoodAddress, ContractAddress, "", "abc", "0x"}

\* Values offered for the parameters the tools take as a wallet address.
AddressProbes ==
    {GoodAddress, ContractAddress, "", "abc", GoodAddress \o "\n", " " \o GoodAddress,
     "0X" \o Repeat("a", AddressHexDigits), "0x" \o Repeat("g", AddressHexDigits),
     "0x" \o Repeat("a", AddressHexDigits + 1)}

Messages == {"", "Dinner on the moon?", Repeat("m", MessageMax), Repeat("m", MessageMax + 1)}

\* The upstream's JSON values, written as the values res.json() settles to.
GameState ==
    Obj(<<Member("round", Num(3)), Member("turn", Num(5)), Member("jackpot", Str("0.05")),
          Member("threshold", Num(92)), Member("phase", Str("active")),
          Member("personality", Obj(<<Member("name", Str("Vex")), Member("emoji", Str("(fire)"))>>)),
          Member("currentCost", Str("1000"))>>)

PersonalityData ==
    Obj(<<Member("name", Str("Vex")), Member("emoji", Str("(fire)")), Member("mood", Str("bored")),
          Member("likes", Arr(<<Str("poetry"), Str("rain")>>)), Member("hates", Arr(<<>>))>>)

PlayLost ==
    Obj(<<Member("score", Num(40)), Member("threshold", Num(92)), Member("won", Bool(FALSE)),
          Member("response", Str("Try harder.")), Member("personality", Str("Vex")),
          Member("round", Num(3)), Member("turn", Num(6)), Member("phase", Str("active")),
          Member("jackpot", Str("0.05"))>>)

PlayWon ==
    Obj(<<Member("score", Num(97)), Member("threshold", Num(92)), Member("won", Bool(TRUE)),
          Member("response", Str("Yes.")), Member("jackpot", Str("0.05")),
          Member("nft_token_id", Num(7)), Member("message_to_agent", Str("gg"))>>)

LeaderboardData ==
    Obj(<<Member("history", Arr(<<
          Obj(<<Member("round", Num(1)), Member("name", Str("Vex")),
                Member("victory", Obj(<<Member("winner", Str(GoodAddress)),
                                        Member("score", Num(97)), Member("jackpot", Str("0.05"))>>))>>),
          Obj(<<Member("name", Str("Ice"))>>),
          Obj(<<Member("name", Str("Odd")), Member("victory", Obj(<<Member("winner", Num(5))>>))>>)>>))>>)

StatsData ==
    Obj(<<Member("total_attempts", Num(4)), Member("total_wins", Num(1)),
          Member("best_score", Num(97)), Member("average_score", Num(60)),
          Member("nfts", Arr(<<Obj(<<Member("round", Num(1)), Member("score", Num(97)),
                                     Member("personality", Str("Vex"))>>)>>)),
          Member("recent_attempts", Arr(<<Obj(<<Member("won", Bool(TRUE)), Member("score", Num(97)),
                                                Member("message_preview", Str("Dinner"))>>), Null>>))>>)

StatsOddNfts == Obj(<<Member("total_attempts", Num(0)), Member("nfts", Str("none"))>>)

StrategyData ==
    Obj(<<Member("round", Num(3)), Member("turn", Num(5)), Member("threshold", Num(92)),
          Member("personality", Obj(<<Member("name", Str("Vex")), Member("mood", Str("bored"))>>)),
          Member("advice", Arr(<<Str("Be brief"), Str("No emojis")>>)),
          Member("cost_info", Obj(<<Member("cost_per_play", Str("free")), Member("network", Str("base-sepolia"))>>))>>)

\* Drip responses: the three known statuses, with and without their fields,
\* and responses with another status, a status that is no string, or none.
DripResponses ==
    <<Obj(<<Member("status", Str("has_balance")), Member("balance", Str("0.02"))>>),
      Obj(<<Member("status", Str("has_balance"))>>),
      Obj(<<Member("status", Str("has_balance")), Member("message", Str("24h left")),
            Member("amount", Str("0.001")), Member("txHash", Str("0xfeed"))>>),
      Obj(<<Member("status", Str("cooldown")), Member("message", Str("24h left"))>>),
      Obj(<<Member("status", Str("cooldown"))>>),
      Obj(<<Member("message", Str("Sent 0.001 ETH to you")), Member("status", Str("cooldown")),
            Member("balance", Num(0))>>),
      Obj(<<Member("status", Str("claimed")), Member("amount", Str("0.001")),
            Member("txHash", Str("0xfeed"))>>),
      Obj(<<Member("status", Str("claimed")), Member("balance", Str("0.02"))>>),
      Obj(<<Member("status", Str("pending")), Member("amount", Str("0.001"))>>),
      Obj(<<Member("status", Str("Claimed")), Member("txHash", Str("0xfeed"))>>),
      Obj(<<Member("status", Str("")), Member("queue", Arr(<<Num(1), Null, Bool(TRUE)>>))>>),
      Obj(<<Member("status", Num(1))>>),
      Obj(<<Member("status", Null), Member("message", Str("24h left"))>>),
      Obj(<<Member("status", Arr(<<Str("claimed")>>))>>),
      Obj(<<Member("amount", Str("0.001")), Member("txHash", Str("0xfeed"))>>),
      Obj(<<Member("error", Obj(<<Member("code", Num(-3))>>))>>)>>

\* JSON values any endpoint may answer with.
CommonJson ==
    <<Null, Obj(<<>>), Arr(<<>>), Arr(<<Null>>), Num(7), Num(0), Str("ok"), Str(""),
      Bool(TRUE), GameState>>

\* The attempts the history endpoint lists.
AttemptKinds ==
    <<Obj(<<Member("personality", Str("A")), Member("round", Num(1)),
            Member("player", Str(GoodAddress)), Member("score", Num(40)),
            Member("message", Str("Dinner?")), Member("response", Str("No."))>>),
      Obj(<<Member("personality", Str("B")), Member("round", Num(2)),
            Member("player", Str(ContractAddress)), Member("won", Bool(TRUE)),
            Member("source", Str("agent")), Member("message", Str("Stars?")),
            Member("response", Str("Yes."))>>),
      Obj(<<Member("personality", Str("A")), Member("round", Num(1)),
            Member("score", Num(55)), Member("source", Str("web")),
            Member("player", Str("")), Member("message", Str("")), Member("response", Null)>>),
      Obj(<<Member("score", Num(0)), Member("player", Str("0x12"))>>),
      Obj(<<Member("personality", Str("Unknown")), Member("round", Str("?")),
            Member("message", Str("--- A (Round 1) ---"))>>)>>

MaxAttempts == 3

\* Answers of the history endpoint that are no list of attempt objects.
OddHistory ==
    <<Obj(<<Member("attempts", Str("none"))>>),
      Obj(<<Member("attempts", Obj(<<Member("length", Num(0))>>))>>),
      Obj(<<Member("attempts", Arr(<<>>))>>),
      Arr(<<AttemptKinds[1], Null>>),
      Arr(<<Obj(<<Member("personality", Str("A")), Member("player", Num(5))>>)>>),
      Arr(<<Obj(<<Member("message", Num(5))>>)>>),
      Arr(<<Str("A"), Num(3), Arr(<<>>)>>),
      Arr(<<Obj(<<Member("player", Arr(<<Num(1), Num(2)>>)), Member("response", Arr(<<Str("r")>>))>>)>>)>>

SpecAddress == "0x1234567890abcdef1234567890abcdef12345678"

\* Answers of the history endpoint whose messages, responses and players
\* have lengths around the limits of the rendering.
LongHistory ==
    <<Arr(<<Obj(<<Member("personality", Str("A")), Member("round", Num(1)),
                  Member("player", Str(SpecAddress)), Member("score", Num(10)),
                  Member("message", Str(Repeat("ab", TruncateTo \div 2) \o "cd")),
                  Member("response", Str(Repeat("r", TruncateTo) \o "..."))>>)>>),
      Arr(<<Obj(<<Member("player", Str("0x12345")), Member("won", Bool(TRUE)),
                  Member("message", Str(Repeat("m", TruncateTo))),
                  Member("response", Str(Repeat("r", TruncateTo + 1)))>>)>>),
      Obj(<<Member("attempts", Arr(<<
            Obj(<<Member("personality", Str("B")), Member("round", Num(2)),
                  Member("player", Str("0x1234567")), Member("source", Str("agent")),
                  Member("message", Str(Repeat("m", TruncateTo - 1))),
                  Member("response", Str(Repeat("xyz ", TruncateTo)))>>),
            Obj(<<Member("personality", Str("A")), Member("round", Num(1)),
                  Member("player", Str("0x123456789")), Member("score", Num(77)),
                  Member("message", Str(" " \o Repeat("m", TruncateTo) \o " ")),
                  Member("response", Str("No.\n"))>>)>>))>>),
      Arr(<<Obj(<<Member("player", Str("abcdef")), Member("score", Num(1)),
                  Member("message", Str(Repeat("m", TruncateTo + 1))),
                  Member("response", Str(""))>>)>>)>>

\* The samples a tool's endpoint answers with, beside CommonJson.
Samples(tool) ==
    CASE tool = "lucille_personality" -> <<PersonalityData>>
      [] tool = "lucille_play" -> <<PlayLost, PlayWon>>
      [] tool = "lucille_history" -> OddHistory \o LongHistory
      [] tool = "lucille_leaderboard" -> <<LeaderboardData, Arr(<<Null>>), Str("x")>>
      [] tool = "lucille_my_stats" -> <<StatsData, StatsOddNfts>>
      [] tool = "lucille_round_strategy" -> <<StrategyData>>
      [] tool = "lucille_claim_eth" -> DripResponses
      [] OTHER -> <<>>

ErrorStatuses == {400, 401, 404, 429, 500, 503}

ErrorBodies ==
    {"", "{\"retry_after_seconds\": 30}", "{\"retry_after_seconds\":0}",
     "{\"retry_after_seconds\":125,\"error\":\"slow down\"}",
     "{\"error\":\"rate limited\"}", "{\"retry_after_seconds\":null}",
     "{\"retry_after_seconds\":\"45\"}", "{\"retry_after_seconds\": 30",
     "null", "[30]", "30", "Too Many Requests", "<html>Bad Gateway</html>",
     "{\"error\":\"Invalid player address\"}"}

\* Messages of the Errors fetch rejects with.
FailureMessages ==
    {"fetch failed", "connect ECONNREFUSED 127.0.0.1:8787",
     "request to https://lucille.world/api/brain failed, reason: connect ECONNREFUSED",
     "getaddrinfo ENOTFOUND lucille.world", "The operation was aborted", "",
     "Fetch Failed", "econnrefused", "Failed to parse URL from /api/game-state"}

\* Messages of the SyntaxError res.json() rejects with on a body that is no JSON.
SyntaxMessages ==
    {"Unexpected end of JSON input", "Unexpected token < in JSON at position 0"}

(***************************************************************************)
(* Specification Spec: the host dispatches invocations concurrently, up to *)
(* NumSlots at a time, over a small set of calls and answers.              *)
(***************************************************************************)
SmallCalls ==
    <<[tool |-> "lucille_rules", raw |-> NoArgs],
      [tool |-> "lucille_verify_wallet", raw |-> [address |-> Str(GoodAddress)]],
      [tool |-> "lucille_verify_wallet", raw |-> [address |-> Str("abc")]],
      [tool |-> "lucille_status", raw |-> NoArgs],
      [tool |-> "lucille_history", raw |-> HistoryRaw(Undefined, Undefined, Undefined)],
      [tool |-> "lucille_history", raw |-> HistoryRaw(Undefined, Undefined, Str(GoodAddress))],
      [tool |-> "lucille_claim_eth", raw |-> [address |-> Str(GoodAddress)]]>>

SmallAnswers ==
    <<Ok(Return(Null)),
      Ok(Return(GameState)),
      Ok(Return(Arr(<<AttemptKinds[1], AttemptKinds[2], AttemptKinds[1]>>))),
      Ok(Return(DripResponses[7])),
      Status(503, Return("")),
      Status(429, Return("{\"retry_after_seconds\": 30}")),
      Rejected(JsError("TypeError", "fetch failed"))>>

Next ==
    \E i \in Slots :
        \/ \E n \in DOMAIN SmallCalls : Call(i, SmallCalls[n].tool, SmallCalls[n].raw)
        \/ \E n \in DOMAIN SmallAnswers : Respond(i, SmallAnswers[n])
        \/ Release(i)

Spec == Init /\ [][Next]_vars

(***************************************************************************)
(* Specification SpecSerial: the host dispatches one invocation at a time, *)
(* over every tool, the parameter values around each schema's limits, and  *)
(* the answers the upstream can give.                                      *)
(***************************************************************************)
NoArgTools ==
    {"lucille_rules", "lucille_status", "lucille_personality", "lucille_leaderboard",
     "lucille_round_strategy", "lucille_contract_info"}

NonStrings == <<Undefined, Null, Num(5)>>

LimitProbes ==
    <<Undefined, Num(LimitMin), Num(LimitMax), Num(LimitMin - 1), Num(LimitMax + 1),
      Dec(LimitMin, 5), Dec(LimitMin - 1, 5), Dec(LimitMax, 5), Str("20"), Null>>

RoundProbes == <<Undefined, Num(3), Num(0)>>

PlayerProbes == {"-", GoodAddress, "abc", "", " " \o GoodAddress}

\* "-" stands for a parameter the caller leaves out
OptStr(s) == IF s = "-" THEN Undefined ELSE Str(s)

AllIdle == \A j \in Slots : inv[j].pc = "idle"

HostCall(i) ==
    /\ AllIdle
    /\ \/ \E tool \in NoArgTools : Call(i, tool, NoArgs)
       \/ \E a \in WalletStrings : Call(i, "lucille_verify_wallet", [address |-> Str(a)])
       \/ \E n \in DOMAIN NonStrings :
              Call(i, "lucille_verify_wallet", [address |-> NonStrings[n]])
       \/ \E m \in Messages, p \in AddressProbes, tx \in {"-", "0xabc"} :
              Call(i, "lucille_play", PlayRaw(Str(m), Str(p), OptStr(tx)))
       \/ \E l \in DOMAIN LimitProbes, r \in DOMAIN RoundProbes, p \in PlayerProbes :
              /\ \/ (r = 1 /\ p = "-")
                 \/ (l = 1 /\ p = "-")
                 \/ (l = 1 /\ r = 1)
                 \/ (l = 1 /\ r = 2 /\ p = GoodAddress)
              /\ Call(i, "lucille_history", HistoryRaw(LimitProbes[l], RoundProbes[r], OptStr(p)))
       \/ \E p \in AddressProbes : Call(i, "lucille_my_stats", [player |-> Str(p)])
       \/ \E p \in AddressProbes : Call(i, "lucille_claim_eth", [address |-> Str(p)])

\* The kinds of settlement of a fetch: a JSON value any endpoint may give, a
\* sample of the tool's endpoint, a list of attempts, a 2xx body that is no
\* JSON, a non-2xx status with a text body, a non-2xx status whose body
\* cannot be read, a rejection with an Error, a rejection with a non-Error.
OutcomeKinds ==
    {"json", "sample", "attempts", "syntax", "status", "unread", "failed", "nonerror"}

Choices(kind, tool) ==
    CASE kind = "json" -> DOMAIN CommonJson
      [] kind = "sample" -> DOMAIN Samples(tool)
      [] kind = "attempts" -> IF tool = "lucille_history" THEN 1..MaxAttempts ELSE {}
      [] kind = "syntax" -> SyntaxMessages
      [] kind = "status" -> ErrorBodies
      [] kind = "failed" -> FailureMessages
      [] OTHER -> {0}

Variants(kind, c) ==
    CASE kind = "attempts" -> 0..(2 * (Len(AttemptKinds) ^ c) - 1)
      [] kind \in {"status", "unread"} -> ErrorStatuses
      [] OTHER -> {0}

\* The k-th list of len attempts; an odd k wraps it as {attempts: [...]}.
AttemptList(len, k) ==
    LET base == Len(AttemptKinds)
        list == Arr([j \in 1..len |-> AttemptKinds[(((k \div 2) \div (base ^ (j - 1))) % base) + 1]])
    IN  IF k % 2 = 1 THEN Obj(<<Member("attempts", list)>>) ELSE list

OutcomeOf(kind, tool, c, v) ==
    CASE kind = "json" -> Ok(Return(CommonJson[c]))
      [] kind = "sample" -> Ok(Return(Samples(tool)[c]))
      [] kind = "attempts" -> Ok(Return(AttemptList(c, v)))
      [] kind = "syntax" -> Ok(Throw(JsError("SyntaxError", c)))
      [] kind = "status" -> Status(v, Return(c))
      [] kind = "unread" -> Status(v, Throw(JsError("TypeError", "terminated")))
      [] kind = "failed" -> Rejected(JsError("TypeError", c))
      [] OTHER -> Rejected(NonError)

Upstream(i) ==
    \E kind \in OutcomeKinds :
        \E c \in Choices(kind, inv[i].tool) :
            \E v \in Variants(kind, c) :
                Respond(i, OutcomeOf(kind, inv[i].tool, c, v))

\* One invocation at a time: which slot holds it is immaterial, so the first does.
NextSerial == HostCall(1) \/ Upstream(1) \/ Release(1)

SpecSerial == Init /\ [][NextSerial]_vars

TypeOK ==
    \A i \in Slots : inv[i].pc \in {"idle", "rejected", "awaiting", "done"}

(***************************************************************************)
(* Properties                                                              *)
(***************************************************************************)
Done(i) == inv[i].pc = "done"

Answered(i) == Done(i) /\ inv[i].tool \in NetworkTools

\* The text of the one result of a finished invocation.
TextOf(i) == inv[i].results[1].v.content[1].text

EndsWith(s, t) == Len(s) >= Len(t) /\ SubSeq(s, Len(s) - Len(t) + 1, Len(s)) = t

\* ^0x[0-9a-fA-F]{40}$ read as a description of the string
IsAddress(s) ==
    /\ Len(s) = 42
    /\ SubSeq(s, 1, 2) = "0x"
    /\ \A k \in 3..42 :
          CharAt(s, k) \in {"0", "1", "2", "3", "4", "5", "6", "7", "8", "9",
                            "a", "b", "c", "d", "e", "f", "A", "B", "C", "D", "E", "F"}

\* C1: whatever the upstream does (a 2xx with any JSON value, a 2xx that is no
\* JSON, a non-2xx status, a rejected fetch, a thrown value that is no Error),
\* a finished invocation of any tool has returned exactly one result, that
\* result is one text block, and nothing was thrown out of the handler; an
\* invocation still waiting has returned nothing yet.
C1_OneTextResult ==
    \A i \in Slots :
        /\ inv[i].pc \in {"idle", "awaiting", "rejected"} => inv[i].results = <<>>
        /\ Done(i) =>
              /\ Len(inv[i].results) = 1
              /\ inv[i].results[1].c = "return"
              /\ Len(inv[i].results[1].v.content) = 1
              /\ inv[i].results[1].v.content[1].type = "text"

\* A handler's own code failed on a 2xx answer (null has no status) and the
\* invocation still ended in a text.
C1_Witness ==
    \E i \in Slots :
        /\ Answered(i)
        /\ inv[i].tool = "lucille_claim_eth"
        /\ inv[i].outcome = Ok(Return(Null))
        /\ StartsWith(TextOf(i), "[x] Error: Cannot read properties of null")

\* C2: an invocation issues at most one request, none for rules and
\* verify_wallet, and exactly one stands when a network tool has finished,
\* also after a non-2xx answer or a rejected fetch: nothing is retried.
C2_AtMostOneRequest ==
    \A i \in Slots :
        /\ Len(inv[i].requests) <= 1
        /\ inv[i].tool \in LocalTools => inv[i].requests = <<>>
        /\ inv[i].pc = "rejected" => inv[i].requests = <<>>
        /\ Answered(i) => Len(inv[i].requests) = 1

C2_Witness ==
    \E i \in Slots :
        /\ Answered(i)
        /\ inv[i].outcome.k \in {"status", "rejected"}
        /\ Len(inv[i].requests) = 1
        /\ inv[i].requests[1].method = "POST"

\* The value given for a parameter the specification types as address, or
\* Undefined when the tool has none or the caller left it out.
AddressParam(tool, raw) ==
    CASE tool \in {"lucille_play", "lucille_my_stats"} -> raw.player
      [] tool = "lucille_history" -> raw.player
      [] tool = "lucille_claim_eth" -> raw.address
      [] OTHER -> Undefined

\* C3: an invocation whose address parameter (play.player, history.player
\* when supplied, my_stats.player, claim_eth.address) does not match
\* ^0x[0-9a-fA-F]{40}$ is rejected by the schema and issues no request.
C3_BadAddressRejected ==
    \A i \in Slots :
        LET a == AddressParam(inv[i].tool, inv[i].raw)
        IN  (inv[i].pc # "idle" /\ a.t = "string" /\ ~IsAddress(a.v))
                => (inv[i].pc = "rejected" /\ inv[i].requests = <<>>)

\* The body of a failed response as the helper read it.
BodyOf(outcome) == IF outcome.text.c = "return" THEN outcome.text.v ELSE ""

\* C4: after a 429 whose body is JSON with a number retry_after_seconds = N
\* the text states N; after a 429 whose body is absent, is no JSON, or is
\* JSON without that member, the text states 60.
C4_WaitValue ==
    \A i \in Slots :
        (Answered(i) /\ inv[i].outcome.k = "status" /\ inv[i].outcome.status = 429) =>
            LET parsed == JsonParse(BodyOf(inv[i].outcome))
                field == IF parsed.c = "return" /\ parsed.v.t = "object"
                         THEN Lookup(parsed.v.v, "retry_after_seconds", Len(parsed.v.v))
                         ELSE Undefined
            IN  /\ field.t = "number" => TextOf(i) = RateLimitText(IntToString(field.v))
                /\ field.t = "undefined" => TextOf(i) = RateLimitText("60")

\* Arguments each network tool's schema accepts.
AcceptedArgs(tool) ==
    CASE tool = "lucille_play" ->
            SchemaArgs(tool, PlayRaw(Str("Dinner on the moon?"), Str(GoodAddress), Undefined))
      [] tool = "lucille_history" ->
            SchemaArgs(tool, HistoryRaw(Undefined, Num(3), Str(GoodAddress)))
      [] tool = "lucille_my_stats" -> SchemaArgs(tool, [player |-> Str(GoodAddress)])
      [] tool = "lucille_claim_eth" -> SchemaArgs(tool, [address |-> Str(ContractAddress)])
      [] OTHER -> SchemaArgs(tool, NoArgs)

\* C5: after a non-2xx answer with status s and body b the text is fixed by
\* (s, b): 429 gives the rate-limit text, 400 the bad-request text with b (or
\* the fallback hint when b is empty), 503 the fixed maintenance message
\* whatever b is, any other status a text with s and b (or "Unknown error"
\* when b is empty); and every network tool's handler gives that same text
\* for the same answer.
C5_StatusDecidesText ==
    \A i \in Slots :
        (Answered(i) /\ inv[i].outcome.k = "status") =>
            LET st == inv[i].outcome.status
                b == BodyOf(inv[i].outcome)
                text == TextOf(i)
            IN  /\ st = 429 =>
                      /\ StartsWith(text, "[hourglass] Rate limited -- wait ")
                      /\ EndsWith(text, " seconds and try again.\nLimit: 3 plays/min per wallet, 60 reads/min.")
                /\ st = 400 =>
                      /\ StartsWith(text, "[x] Bad request: "
                             \o (IF b = "" THEN "Check your parameters." ELSE b) \o "\n")
                      /\ EndsWith(text, "wallet address format (0x... 42 chars) and message length (1-500 chars).")
                /\ st = 503 =>
                      text = "[wrench] Lucille is sleeping (maintenance). Try again in a few minutes."
                /\ st \notin {429, 400, 503} =>
                      StartsWith(text, "[x] API error (" \o IntToString(st) \o "): "
                          \o (IF b = "" THEN "Unknown error" ELSE b) \o "\n")
                /\ \A tool \in NetworkTools :
                      HandlerResult(tool, AcceptedArgs(tool), inv[i].outcome) = inv[i].results[1]

C5_Witness ==
    \E i \in Slots :
        /\ Answered(i)
        /\ inv[i].tool = "lucille_play"
        /\ inv[i].outcome = Status(503, Return("{\"error\":\"rate limited\"}"))
        /\ TextOf(i) = MaintenanceText

\* A message that tells of a refused connection: the runtime's fetch reports
\* a connection it could not make as "fetch failed", the socket layer as
\* ECONNREFUSED.
IndicatesRefusal(message) ==
    \E k \in 1..(Len(message) - 11) :
        \/ SubSeq(message, k, k + 11) = "fetch failed"
        \/ SubSeq(message, k, k + 11) = "ECONNREFUSED"

\* C6: a caught Error that is no ApiError gives the fixed unreachable
\* message, naming the default endpoint, exactly when its message tells of a
\* refused connection; any other such Error gives a text with the Error's own
\* message; a caught value that is no Error gives the fixed generic message.
C6_TransportFailures ==
    \A i \in Slots :
        /\ (Answered(i) /\ inv[i].outcome.k = "rejected" /\ inv[i].outcome.e.cls = "Error") =>
              LET m == inv[i].outcome.e.message
              IN  /\ (TextOf(i) = UnreachableText) <=> IndicatesRefusal(m)
                  /\ ~IndicatesRefusal(m) => TextOf(i) = "[x] Error: " \o m
        /\ (Answered(i) /\ inv[i].outcome.k = "rejected" /\ inv[i].outcome.e.cls = "NonError") =>
              TextOf(i) = "[x] An unexpected error occurred. Try again."
        /\ Includes(UnreachableText, DefaultApiUrl)

C6_Witness ==
    \E i \in Slots :
        /\ Answered(i)
        /\ inv[i].outcome = Rejected(JsError("TypeError", "connect ECONNREFUSED 127.0.0.1:8787"))
        /\ TextOf(i) = UnreachableText

C8_VerifyWallet ==
    \A i \in Slots :
        (Done(i) /\ inv[i].tool = "lucille_verify_wallet") =>
            LET a == inv[i].raw.address.v
            IN  IF IsAddress(a)
                THEN StartsWith(TextOf(i), "[check] Valid Base wallet address: " \o a \o "\n")
                ELSE StartsWith(TextOf(i), "[x] Invalid wallet address: \"" \o a \o "\"\n")

C8_Witness ==
    \E i \in Slots :
        /\ Done(i)
        /\ inv[i].tool = "lucille_verify_wallet"
        /\ inv[i].raw.address.v = "0x" \o Repeat("a", 40) \o "\n"
        /\ StartsWith(TextOf(i), "[x] Invalid wallet address: \"0x" \o Repeat("a", 40) \o "\n\"")

\* The list of attempts in a 2xx answer of the history endpoint: the answer
\* itself when it is an array, its attempts member otherwise; <<>> if neither
\* is an array.
ListedAttempts(data) ==
    IF data.t = "array" THEN data.v
    ELSE IF data.t = "object" /\ Lookup(data.v, "attempts", Len(data.v)).t = "array"
    THEN Lookup(data.v, "attempts", Len(data.v)).v
    ELSE <<>>

\* An attempt: an object whose player, message and response, where present,
\* are strings (or null).
IsAttempt(a) ==
    /\ a.t = "object"
    /\ \A k \in {"player", "message", "response"} :
          Lookup(a.v, k, Len(a.v)).t \in {"string", "undefined", "null"}

\* The label of the k-th listed attempt.
LabelAt(list, k) == GroupKey(list[k]).v

\* How many attempts up to the k-th carry the k-th's label.
RankAt(list, k) == Cardinality({m \in 1..k : LabelAt(list, m) = LabelAt(list, k)})

FirstOfLabel(list, k) == \A m \in 1..(k - 1) : LabelAt(list, m) # LabelAt(list, k)

\* The entries of one label, in the list's order, each numbered by its rank.
RECURSIVE EntriesOfLabel(_, _, _)
EntriesOfLabel(list, label, k) ==
    IF k > Len(list) THEN ""
    ELSE (IF LabelAt(list, k) = label
          THEN HistoryEntry(list[k], RankAt(list, k) - 1).v ELSE "")
         \o EntriesOfLabel(list, label, k + 1)

\* One group per label, placed where the label first occurs.
RECURSIVE GroupsInFirstSeenOrder(_, _)
GroupsInFirstSeenOrder(list, k) ==
    IF k > Len(list) THEN ""
    ELSE (IF FirstOfLabel(list, k)
          THEN "--- " \o LabelAt(list, k) \o " ---\n" \o EntriesOfLabel(list, LabelAt(list, k), 1)
          ELSE "")
         \o GroupsInFirstSeenOrder(list, k + 1)

RECURSIVE SumOfSizes(_, _)
SumOfSizes(grouped, g) ==
    IF g > Len(grouped) THEN 0 ELSE Len(grouped[g].items) + SumOfSizes(grouped, g + 1)

\* C9: for a non-empty list of attempts from the upstream, the history text
\* is the header followed by one group per distinct label
\* "{personality} (Round {round})", the groups in the order in which their
\* first attempt occurs in the list, each group's attempts in the list's
\* order and numbered 1, 2, ...; the group sizes sum to the number of
\* attempts.
C9_HistoryGroups ==
    \A i \in Slots :
        (/\ Answered(i) /\ inv[i].tool = "lucille_history"
         /\ inv[i].outcome.k = "ok" /\ inv[i].outcome.json.c = "return"
         /\ ListedAttempts(inv[i].outcome.json.v) # <<>>
         /\ \A k \in DOMAIN ListedAttempts(inv[i].outcome.json.v) :
               IsAttempt(ListedAttempts(inv[i].outcome.json.v)[k]))
        => LET list == ListedAttempts(inv[i].outcome.json.v)
               grouped == GroupAttempts(list, 1, <<>>).v
               firsts == {k \in DOMAIN list : FirstOfLabel(list, k)}
           IN  /\ Len(grouped) = Cardinality({LabelAt(list, k) : k \in DOMAIN list})
               /\ \A g \in DOMAIN grouped :
                     \E k \in firsts :
                         /\ Cardinality({m \in firsts : m < k}) = g - 1
                         /\ grouped[g].key = LabelAt(list, k)
               /\ \A k \in DOMAIN list :
                     \E g \in DOMAIN grouped :
                         /\ grouped[g].key = LabelAt(list, k)
                         /\ grouped[g].items[RankAt(list, k)] = list[k]
                         /\ StartsWith(HistoryEntry(list[k], RankAt(list, k) - 1).v,
                                       IntToString(RankAt(list, k)) \o ". [")
               /\ SumOfSizes(grouped, 1) = Len(list)
               /\ TextOf(i) = Trim(HistoryHeader(inv[i].args, Arr(list))
                                   \o GroupsInFirstSeenOrder(list, 1))

\* The specification's example: labels A, B, A give two groups, A first,
\* and A (Round 1) has two entries.
C9_Witness ==
    \E i \in Slots :
        /\ Answered(i)
        /\ inv[i].tool = "lucille_history"
        /\ inv[i].outcome = Ok(Return(Arr(<<AttemptKinds[1], AttemptKinds[2], AttemptKinds[3]>>)))
        /\ LET grouped == GroupAttempts(inv[i].outcome.json.v.v, 1, <<>>).v
           IN  /\ Len(grouped) = 2
               /\ grouped[1].key = "A (Round 1)" /\ Len(grouped[1].items) = 2
               /\ grouped[2].key = "B (Round 2)"
        /\ Includes(TextOf(i), "--- A (Round 1) ---\n1. [Score: 40]")
        /\ Includes(TextOf(i), "\n2. [Score: 55]")

\* The four shapes of a claim_eth text.
IsFundedShape(text) == StartsWith(text, "[check] You already have enough ETH (")

IsCooldownShape(text) ==
    StartsWith(text, "[hourglass] Cooldown active. ") /\ EndsWith(text, ". You can claim again later.")

IsClaimedShape(text) == StartsWith(text, "[check] Sent ")

IsEchoShape(text) == StartsWith(text, "Result: ")

\* The status member of a drip response, Undefined when it has none.
StatusOf(data) ==
    IF data.t = "object" THEN Lookup(data.v, "status", Len(data.v)) ELSE Undefined

IsStatus(data, word) == StatusOf(data).t = "string" /\ StatusOf(data).v = word

\* `${x}` of a member the text carries
Shown(data, k) == JsToString(Lookup(data.v, k, Len(data.v)))

CarriesLimit(url, n) ==
    LET q == "/api/history?limit=" \o IntToString(n)
    IN  \E k \in 1..Len(url) :
            /\ k + Len(q) - 1 <= Len(url)
            /\ SubSeq(url, k, k + Len(q) - 1) = q
            /\ \/ k + Len(q) - 1 = Len(url)
               \/ SubSeq(url, k + Len(q), k + Len(q)) = "&"

\* C11: every history request that reaches the upstream carries a limit
\* that is an integer between 1 and 50, the caller's own, and 20 when the
\* caller supplied none; a limit that is no integer or lies outside 1..50 is
\* rejected before any request is issued.
C11_HistoryLimit ==
    \A i \in Slots :
        inv[i].tool = "lucille_history"
        => LET given == inv[i].raw.limit
               valid == given.t = "undefined" \/ (IsInteger(given) /\ given.v \in 1..50)
           IN  /\ ~valid => (inv[i].pc = "rejected" /\ inv[i].requests = <<>>)
               /\ inv[i].requests # <<>>
                     => \E n \in 1..50 :
                            /\ given.t = "undefined" => n = 20
                            /\ given.t # "undefined" => given = Num(n)
                            /\ CarriesLimit(inv[i].requests[1].url, n)

\* The first n and the last n characters of a string (all of it when it has
\* no more than n).
FirstChars(str, n) == IF Len(str) <= n THEN str ELSE SubSeq(str, 1, n)

LastChars(str, n) == IF Len(str) <= n THEN str ELSE SubSeq(str, Len(str) - n + 1, Len(str))

\* A message or response as the claim renders it.
CutTo200(str) == IF Len(str) <= 200 THEN str ELSE SubSeq(str, 1, 200)

\* A player address as the claim renders it.
Shortened(player) == FirstChars(player, 6) \o "..." \o LastChars(player, 4)

StringField(a, k) == Lookup(a.v, k, Len(a.v))

\* C12: in history output every message and every response is rendered
\* unchanged when it has at most 200 characters and as exactly its first 200
\* characters, nothing added, when it is longer; every player address is
\* rendered as its first 6 characters, "...", and its last 4 characters.
C12_HistoryRendering ==
    \A i \in Slots :
        (/\ Answered(i) /\ inv[i].tool = "lucille_history"
         /\ inv[i].outcome.k = "ok" /\ inv[i].outcome.json.c = "return"
         /\ ListedAttempts(inv[i].outcome.json.v) # <<>>
         /\ \A k \in DOMAIN ListedAttempts(inv[i].outcome.json.v) :
               IsAttempt(ListedAttempts(inv[i].outcome.json.v)[k]))
        => LET list == ListedAttempts(inv[i].outcome.json.v)
               text == TextOf(i) \o "\n\n"
           IN  \A k \in DOMAIN list :
                   LET player == StringField(list[k], "player")
                       message == StringField(list[k], "message")
                       response == StringField(list[k], "response")
                   IN  /\ (player.t = "string" /\ player.v # "")
                            => \E source \in {"", " [robot]"} :
                                   Includes(text, "] " \o Shortened(player.v) \o source
                                                  \o "\n   Message: \"")
                       /\ message.t = "string"
                            => Includes(text, "\n   Message: \"" \o CutTo200(message.v)
                                              \o "\"\n   Lucille: \"")
                       /\ response.t = "string"
                            => Includes(text, "\n   Lucille: \"" \o CutTo200(response.v)
                                              \o "\"\n\n")
                       /\ (player.t = "string" /\ player.v # ""
                           /\ message.t = "string" /\ response.t = "string")
                            => \E source \in {"", " [robot]"} :
                                   Includes(text, "] " \o Shortened(player.v) \o source
                                       \o "\n   Message: \"" \o CutTo200(message.v)
                                       \o "\"\n   Lucille: \"" \o CutTo200(response.v)
                                       \o "\"\n\n")

\* The specification's address is shortened to 0x1234...5678, a message of
\* 202 characters is cut to its first 200 and a response of 203 likewise.
C12_Witness ==
    \E i \in Slots :
        /\ Answered(i)
        /\ inv[i].tool = "lucille_history"
        /\ inv[i].outcome = Ok(Return(LongHistory[1]))
        /\ TextOf(i) = "=== Recent 1 Attempts ===\n\n--- A (Round 1) ---\n"
              \o "1. [Score: 10] 0x1234...5678\n"
              \o "   Message: \"" \o Repeat("ab", 100) \o "\"\n"
              \o "   Lucille: \"" \o Repeat("r", 200) \o "\""

\* Whether a URL's query has the parameter name=value, after the first one.
HasFilter(url, name, value) ==
    LET q == "&" \o name \o "=" \o value
    IN  \E k \in 1..Len(url) :
            /\ k + Len(q) - 1 <= Len(url)
            /\ SubSeq(url, k, k + Len(q) - 1) = q
            /\ \/ k + Len(q) - 1 = Len(url)
               \/ SubSeq(url, k + Len(q), k + Len(q)) = "&"

Supplied(x) == x.t # "undefined"

\* C13: for every history invocation that passes validation the query has
\* a round filter with the caller's value exactly when the caller supplied
\* round and a player filter with the caller's value exactly when the caller
\* supplied player; the header of a listing names the round when round was
\* supplied, otherwise the player when player was supplied, otherwise the
\* number of attempts.
C13_HistoryFilters ==
    \A i \in Slots :
        (inv[i].tool = "lucille_history" /\ inv[i].pc \in {"awaiting", "done"})
        => LET round == inv[i].raw.round
               player == inv[i].raw.player
               url == inv[i].requests[1].url
               data == inv[i].outcome.json.v
           IN  /\ Includes(url, "&round=") <=> Supplied(round)
               /\ Supplied(round) => HasFilter(url, "round", JsToString(round))
               /\ Includes(url, "&player=") <=> Supplied(player)
               /\ Supplied(player) => HasFilter(url, "player", player.v)
               /\ (/\ Done(i) /\ inv[i].outcome.k = "ok" /\ inv[i].outcome.json.c = "return"
                   /\ ListedAttempts(data) # <<>>
                   /\ \A k \in DOMAIN ListedAttempts(data) : IsAttempt(ListedAttempts(data)[k]))
                  => IF Supplied(round)
                     THEN StartsWith(TextOf(i),
                              "=== Attempts for Round " \o JsToString(round) \o " ===\n\n")
                     ELSE IF Supplied(player)
                     THEN StartsWith(TextOf(i),
                              "=== Attempts by " \o FirstChars(player.v, 10) \o "... ===\n\n")
                     ELSE StartsWith(TextOf(i),
                              "=== Recent " \o IntToString(Len(ListedAttempts(data)))
                                  \o " Attempts ===\n\n")
====
